---- MODULE Spec2Model ----
(***************************************************************************)
(* VercelLLMService (src/src/core/ai/llm/services/vercel.ts): the          *)
(* orchestration of one task, streaming (completeTaskStreaming,            *)
(* processStream, streamText and its onChunk / onError / onStepFinish /    *)
(* onFinish callbacks) and non-streaming (completeTask, generateText and   *)
(* its onStepFinish callback).                                             *)
(*                                                                         *)
(* Texts are sequences of characters.  The provider binding (the AI SDK)   *)
(* is the environment: it chooses the deltas, the content of every         *)
(* step-finish notice, when the stream finishes and how a failure is       *)
(* reported (through onError, by rejecting the text stream, or both).      *)
(* `events` is the log of what the event emitter was asked to emit during  *)
(* the current task; `store` is the message history of the MessageManager. *)
(* Fields named src and variables marked "history" record which deltas a   *)
(* text came from and what the last callback did; the code does not read   *)
(* them.                                                                   *)
(***************************************************************************)
EXTENDS Integers, Sequences, FiniteSets, TLC

\* ------------------------------------------------------------------ bounds
MaxDeltas == 2          \* text deltas the provider sends in one task
maxIterations == 2      \* the service's configured maxIterations (maxSteps)
MaxResets == 2          \* resets of the conversation in one behaviour
MaxMessages == 2        \* Discord messages in one behaviour

\* --------------------------------------------------------------- alphabets
Whitespace == {" "}
DeltaTexts == {<<>>, <<"a">>, <<" ">>}
OtherText == <<"b">>
CallBatches == {<<>>, <<"t1">>, <<"t1", "t2">>}
ResultBatches == {<<>>, <<"t1">>}
StartFailures == {"none", "addUserMessage", "getAllTools", "getFormattedMessages",
                  "provider", "notIterable"}
GenStartFailures == {"none", "addUserMessage", "getAllTools", "getFormattedMessages"}
Causes == {"e1", "e2"}

ExhaustionMessage == <<"Reached maximum number of tool call iterations without a final response.">>
ErrorString == <<"Error processing request: ">>
\* `Error processing request: ${errorMessage}` (line 126)
ErrorReturn(cause) == ErrorString \o <<cause>>

VARIABLES
    store,               \* MessageManager history: Seq of [role, text, src]
    events,              \* emitted events of the current task: Seq of [kind, text, src]
    pc,                  \* position of the task
    mode,                \* "none" | "gen" (completeTask) | "stream" (completeTaskStreaming)
    currentSegmentText,  \* the pending-text buffer of streamText
    stepIteration,       \* stepIteration of streamText / generateText
    genSteps,            \* steps of the non-streaming provider response so far
    result,              \* what the call returned: [returned, value]
    lastHadTools,        \* provider: the last step reported tool calls or results
    nDeltas,             \* provider: number of deltas sent in this task
    bufSrc,              \* history: ids of the deltas held in the buffer
    stepSrc,             \* history: ids of the deltas of the current step
    last,                \* history: what the last step-finish / finish callback saw and did
    providerFailed,      \* history: the provider failed in this task
    allToolCalls,        \* history: every step so far reported tool calls
    iterationCount,      \* iterationCount of completeTask
    providerCalls,       \* history: invocations of generateText / streamText in this call
    execLog,             \* history: tool executions: [tool, at, step, ok], at = Len(events) then
    shape,               \* history: how far the provider's inputs follow the scenario shape
    front,               \* the front ends: the handlers of the Discord bot and of the CLI
    streamCalls          \* concurrent streaming calls: the locals of each streamText

vars == <<store, events, pc, mode, currentSegmentText, stepIteration, genSteps,
          result, lastHadTools, nDeltas, bufSrc, stepSrc, last, providerFailed,
          allToolCalls, iterationCount, providerCalls, execLog, shape, front,
          streamCalls>>

\* ------------------------------------------------------------ text helpers
RECURSIVE TrimStart(_)
TrimStart(s) ==
    IF s = <<>> THEN <<>>
    ELSE IF Head(s) \in Whitespace THEN TrimStart(Tail(s)) ELSE s

RECURSIVE TrimEnd(_)
TrimEnd(s) ==
    IF s = <<>> THEN <<>>
    ELSE IF s[Len(s)] \in Whitespace THEN TrimEnd(SubSeq(s, 1, Len(s) - 1)) ELSE s

\* String.prototype.trim
Trim(s) == TrimEnd(TrimStart(s))

\* JavaScript truthiness of a string
Truthy(s) == s # <<>>

\* ------------------------------------------------------------------ events
Ev(kind, text, src) == [kind |-> kind, text |-> text, src |-> src]
Msg(role, text, src) == [role |-> role, text |-> text, src |-> src]

\* eventEmitter.emit, on a handler state h = [buf, bufSrc, store, events, handled]
Emit(h, e) == [h EXCEPT !.events = Append(@, e)]

\* messageManager.addAssistantMessage
AddAssistantMessage(h, text, src) ==
    [h EXCEPT !.store = Append(@, Msg("assistant", text, src))]

RECURSIVE EmitEach(_, _, _)
EmitEach(h, kind, names) ==
    IF names = <<>> THEN h
    ELSE EmitEach(Emit(h, Ev(kind, <<Head(names)>>, {})), kind, Tail(names))

\* ------------------------------------------- streamText: the four callbacks
\* variant: the delta is put in front of the pending text
OnChunk_Prepends(h, delta, id) ==
    IF Truthy(delta)
    THEN Emit([h EXCEPT !.buf = delta \o @, !.bufSrc = @ \cup {id}],
              Ev("chunk", delta, {id}))
    ELSE h

\* onChunk (a text-delta chunk): lines 242-251
OnChunk(h, delta, id) ==
    IF Truthy(delta)
    THEN Emit([h EXCEPT !.buf = @ \o delta, !.bufSrc = @ \cup {id}],
              Ev("chunk", delta, {id}))
    ELSE h

\* onError: lines 252-258
OnError(h) == Emit(h, Ev("error", <<>>, {}))

\* variant: the closed segment is emitted from the running buffer instead of
\* the step's text
StepTextSegment_EmitsBuffer(h, step) ==
    IF Truthy(step.text) /\ Trim(step.text) # <<>>
    THEN [Emit(AddAssistantMessage(h, h.buf, h.bufSrc),
               Ev("response", h.buf, h.bufSrc))
            EXCEPT !.buf = <<>>, !.bufSrc = {}, !.handled = TRUE]
    ELSE h

\* variant: any step text that is not empty closes a segment
StepTextSegment_AnyText(h, step) ==
    IF Truthy(step.text)
    THEN [Emit(AddAssistantMessage(h, step.text, step.src),
               Ev("response", step.text, step.src))
            EXCEPT !.buf = <<>>, !.bufSrc = {}, !.handled = TRUE]
    ELSE h

\* onStepFinish, "Handle completed text segments first": lines 266-274
StepTextSegment(h, step) ==
    IF Truthy(step.text) /\ Trim(step.text) # <<>>
    THEN [Emit(AddAssistantMessage(h, step.text, step.src),
               Ev("response", step.text, step.src))
            EXCEPT !.buf = <<>>, !.bufSrc = {}, !.handled = TRUE]
    ELSE h

\* variant: the buffer is not cleared after the flush before the tool calls
StepToolCalls_KeepsBuffer(h, step) ==
    IF Len(step.toolCalls) > 0
    THEN LET h1 == IF Truthy(Trim(h.buf)) /\ ~h.handled
                   THEN Emit(AddAssistantMessage(h, h.buf, h.bufSrc),
                             Ev("response", h.buf, h.bufSrc))
                   ELSE h
             h3 == EmitEach(h1, "toolCall", step.toolCalls)
             h4 == Emit(h3, Ev("resetAccumulation", <<>>, {}))
         IN  [h4 EXCEPT !.handled = TRUE]
    ELSE h

\* variant: the preceding text is flushed after the toolCall events
StepToolCalls_FlushAfterCalls(h, step) ==
    IF Len(step.toolCalls) > 0
    THEN LET h1 == EmitEach(h, "toolCall", step.toolCalls)
             h2 == IF Truthy(Trim(h.buf)) /\ ~h.handled
                   THEN Emit(AddAssistantMessage(h1, h.buf, h.bufSrc),
                             Ev("response", h.buf, h.bufSrc))
                   ELSE h1
             h3 == [h2 EXCEPT !.buf = <<>>, !.bufSrc = {}]
             h4 == Emit(h3, Ev("resetAccumulation", <<>>, {}))
         IN  [h4 EXCEPT !.handled = TRUE]
    ELSE h

\* variant: the flush before the tool calls does not look at the buffer
StepToolCalls_AlwaysFlush(h, step) ==
    IF Len(step.toolCalls) > 0
    THEN LET h1 == IF ~h.handled
                   THEN Emit(AddAssistantMessage(h, h.buf, h.bufSrc),
                             Ev("response", h.buf, h.bufSrc))
                   ELSE h
             h2 == [h1 EXCEPT !.buf = <<>>, !.bufSrc = {}]
             h3 == EmitEach(h2, "toolCall", step.toolCalls)
             h4 == Emit(h3, Ev("resetAccumulation", <<>>, {}))
         IN  [h4 EXCEPT !.handled = TRUE]
    ELSE h

\* onStepFinish, "Handle tool calls if present": lines 276-299
StepToolCalls(h, step) ==
    IF Len(step.toolCalls) > 0
    THEN LET h1 == IF Truthy(Trim(h.buf)) /\ ~h.handled
                   THEN Emit(AddAssistantMessage(h, h.buf, h.bufSrc),
                             Ev("response", h.buf, h.bufSrc))
                   ELSE h
             h2 == [h1 EXCEPT !.buf = <<>>, !.bufSrc = {}]
             h3 == EmitEach(h2, "toolCall", step.toolCalls)
             h4 == Emit(h3, Ev("resetAccumulation", <<>>, {}))
         IN  [h4 EXCEPT !.handled = TRUE]
    ELSE h

\* variant: the tool results branch signals a reset of the accumulation too
StepToolResults_EmitsReset(h, step) ==
    IF Len(step.toolResults) > 0
    THEN [Emit(EmitEach(h, "toolResult", step.toolResults),
               Ev("resetAccumulation", <<>>, {}))
            EXCEPT !.buf = <<>>, !.bufSrc = {}, !.handled = TRUE]
    ELSE h

\* onStepFinish, "Handle tool results if present": lines 301-313
StepToolResults(h, step) ==
    IF Len(step.toolResults) > 0
    THEN [EmitEach(h, "toolResult", step.toolResults)
            EXCEPT !.buf = <<>>, !.bufSrc = {}, !.handled = TRUE]
    ELSE h

\* variant: the fallback flush leaves the flushed text in the buffer
StepFallback_KeepsBuffer(h) ==
    IF Truthy(Trim(h.buf)) /\ ~h.handled
    THEN Emit(AddAssistantMessage(h, h.buf, h.bufSrc),
              Ev("response", h.buf, h.bufSrc))
    ELSE h

\* onStepFinish, the fallback flush: lines 315-325
StepFallback(h) ==
    IF Truthy(Trim(h.buf)) /\ ~h.handled
    THEN [Emit(AddAssistantMessage(h, h.buf, h.bufSrc),
               Ev("response", h.buf, h.bufSrc))
            EXCEPT !.buf = <<>>, !.bufSrc = {}]
    ELSE h

\* variant: the tool results of a step are handled before its tool calls
OnStepFinish_ResultsFirst(h, step) ==
    LET h0 == [h EXCEPT !.handled = FALSE]
    IN  StepFallback(StepToolCalls(StepToolResults(StepTextSegment(h0, step), step), step))

\* onStepFinish: lines 259-326
OnStepFinish(h, step) ==
    LET h0 == [h EXCEPT !.handled = FALSE]
    IN  StepFallback(StepToolResults(StepToolCalls(StepTextSegment(h0, step), step), step))

\* variant: the leftover text is announced but not stored
OnFinish_OnlyEmits(h) ==
    LET h1 == IF Truthy(Trim(h.buf))
              THEN Emit(h, Ev("response", h.buf, h.bufSrc))
              ELSE h
    IN  [h1 EXCEPT !.buf = <<>>, !.bufSrc = {}]

\* onFinish: lines 327-338
OnFinish(h) ==
    LET h1 == IF Truthy(Trim(h.buf))
              THEN Emit(AddAssistantMessage(h, h.buf, h.bufSrc),
                        Ev("response", h.buf, h.bufSrc))
              ELSE h
    IN  [h1 EXCEPT !.buf = <<>>, !.bufSrc = {}]

\* ------------------------------------------ generateText: its step callback
\* variant: the tool calls of a step are announced before its text
GenOnStepFinish_CallsFirst(h, step) ==
    LET h1 == IF Len(step.toolCalls) > 0
              THEN EmitEach(h, "toolCall", step.toolCalls) ELSE h
        h2 == IF Truthy(step.text)
              THEN Emit(h1, Ev("response", step.text, step.src)) ELSE h1
    IN  IF Len(step.toolResults) > 0
        THEN EmitEach(h2, "toolResult", step.toolResults) ELSE h2

\* onStepFinish of generateText: lines 141-176
GenOnStepFinish(h, step) ==
    LET h1 == IF Truthy(step.text)
              THEN Emit(h, Ev("response", step.text, step.src)) ELSE h
        h2 == IF Len(step.toolCalls) > 0
              THEN EmitEach(h1, "toolCall", step.toolCalls) ELSE h1
    IN  IF Len(step.toolResults) > 0
        THEN EmitEach(h2, "toolResult", step.toolResults) ELSE h2

\* messageManager.processLLMResponse(response): one assistant message per
\* step that has text, then one tool turn per tool result of the step
RECURSIVE ToolTurns(_)
ToolTurns(names) ==
    IF names = <<>> THEN <<>>
    ELSE <<Msg("tool", <<Head(names)>>, {})>> \o ToolTurns(Tail(names))

RECURSIVE ProcessLLMResponse(_, _)
ProcessLLMResponse(st, steps) ==
    IF steps = <<>> THEN st
    ELSE LET s == Head(steps)
             a == IF Truthy(s.text) THEN <<Msg("assistant", s.text, s.src)>> ELSE <<>>
         IN  ProcessLLMResponse(st \o a \o ToolTurns(s.toolResults), Tail(steps))

RECURSIVE AllStepsText(_)
AllStepsText(steps) ==
    IF steps = <<>> THEN <<>> ELSE Head(steps).text \o AllStepsText(Tail(steps))

\* variant: the texts of all steps, concatenated
ResponseText_Concatenated(steps) == AllStepsText(steps)

\* response.text of generateText: the text of the last step
ResponseText(steps) == IF steps = <<>> THEN <<>> ELSE steps[Len(steps)].text

\* completeTask, its return expression: lines 110-113
ReturnValue(fullResponse) ==
    IF Truthy(fullResponse) THEN fullResponse ELSE ExhaustionMessage

\* variant: the loop runs up to the configured number of iterations
LoopContinues_UpToMax(n) == n < maxIterations

\* completeTask, its loop condition: line 80
LoopContinues(n) == n < 1

\* variant: the catch reports the failure without its cause
CompleteTaskCatch_NoCause(h, cause) == Emit(h, Ev("error", <<>>, {}))

\* completeTask, its catch (lines 114-127): the error event carries the cause
CompleteTaskCatch(h, cause) == Emit(h, Ev("error", <<cause>>, {}))

\* ------------------------------------------------------- handler plumbing
H == [buf |-> currentSegmentText, bufSrc |-> bufSrc, store |-> store,
      events |-> events, handled |-> FALSE]

Apply(h) ==
    /\ currentSegmentText' = h.buf
    /\ bufSrc' = h.bufSrc
    /\ store' = h.store
    /\ events' = h.events

NoLast == [handler |-> "none", text |-> <<>>, toolCalls |-> <<>>, toolResults |-> <<>>,
           bufBefore |-> <<>>, bufAfter |-> <<>>, emitted |-> <<>>, appended |-> <<>>,
           afterError |-> FALSE]

\* what a callback saw (its step, the buffer before) and did (the events it
\* emitted, the messages it appended, the buffer after)
Record(handler, step, h) ==
    [handler |-> handler, text |-> step.text, toolCalls |-> step.toolCalls,
     toolResults |-> step.toolResults,
     bufBefore |-> currentSegmentText, bufAfter |-> h.buf,
     emitted |-> SubSeq(h.events, Len(events) + 1, Len(h.events)),
     appended |-> SubSeq(h.store, Len(store) + 1, Len(h.store)),
     afterError |-> providerFailed]

NoStep == [text |-> <<>>, toolCalls |-> <<>>, toolResults |-> <<>>, src |-> {}]

\* the step-finish notices the provider can send: the text is empty,
\* whitespace, the text of the step's deltas, or a text of its own
StepTexts == {<<>>, <<" ">>, currentSegmentText, OtherText}
Steps == [text : StepTexts, toolCalls : CallBatches, toolResults : ResultBatches,
          src : {stepSrc}]

\* ------------------------------------------------------------------- state
NoResult == [returned |-> FALSE, threw |-> FALSE, value |-> <<>>]
Returned(v) == [returned |-> TRUE, threw |-> FALSE, value |-> v]
\* the call rejected: the failure crossed the public boundary
Threw == [returned |-> FALSE, threw |-> TRUE, value |-> <<>>]
UserMessage == Msg("user", <<"u">>, {})
HasTools(step) == Len(step.toolCalls) > 0 \/ Len(step.toolResults) > 0

\* an input of the provider binding
In(cb, text, calls, results) ==
    [cb |-> cb, text |-> text, toolCalls |-> calls, toolResults |-> results]

\* the front ends before any input: no Discord message, the CLI main loop at
\* its prompt, the voice input idle, nobody in cooldown, no toolCall listener
\* on the agent's bus and no tool-call notification posted
Authors == {"u1", "u2"}
MessageIds == 1..MaxMessages
FrontStart ==
    [discord |-> [m \in MessageIds |-> [stage |-> "none", author |-> "u1"]],
     cooldown |-> {},
     main |-> "prompt",
     voice |-> "idle",
     listeners |-> {},
     posts |-> {}]

\* the streaming calls that run concurrently on one service
CallIds == {1, 2}

\* the locals of a streamText invocation (lines 235-236) and its history:
\* the deltas it received and the texts its callbacks flushed
NoCall == [pc |-> "idle", currentSegmentText |-> <<>>, bufSrc |-> {},
           stepSrc |-> {}, stepIteration |-> 0, nDeltas |-> 0,
           lastHadTools |-> FALSE, flushed |-> {}]

\* The scenario shape: non-empty deltas, a step-finish with a text T1 and one
\* tool call, the tool's result (reported by that step-finish or by a
\* step-finish of its own), a step-finish with a text T2 and no tools, and
\* then the end of the stream.
\* pos: 0 deltas, 1 after T1's step, 2 after the result, 3 after T2's step,
\* -1 when the inputs left the shape.
ShapeStart == [pos |-> 0, deltas |-> <<>>, t1 |-> <<>>, tool |-> <<>>, t2 |-> <<>>]
ShapeOff == [pos |-> -1, deltas |-> <<>>, t1 |-> <<>>, tool |-> <<>>, t2 |-> <<>>]
ShapeNext(sh, in) ==
    CASE sh.pos = 0 /\ in.cb = "chunk" /\ in.text # <<>>
            -> [sh EXCEPT !.deltas = Append(@, in.text)]
      [] /\ sh.pos = 0 /\ in.cb = "step" /\ sh.deltas # <<>>
         /\ Trim(in.text) # <<>> /\ Len(in.toolCalls) = 1
         /\ in.toolResults \in {<<>>, in.toolCalls}
            -> [sh EXCEPT !.pos = IF in.toolResults = <<>> THEN 1 ELSE 2,
                          !.t1 = in.text, !.tool = in.toolCalls]
      [] /\ sh.pos = 1 /\ in.cb = "step" /\ in.text = <<>>
         /\ in.toolCalls = <<>> /\ in.toolResults = sh.tool
            -> [sh EXCEPT !.pos = 2]
      [] /\ sh.pos = 2 /\ in.cb = "step" /\ Trim(in.text) # <<>>
         /\ in.toolCalls = <<>> /\ in.toolResults = <<>>
            -> [sh EXCEPT !.pos = 3, !.t2 = in.text]
      [] sh.pos = 3 /\ in.cb = "finish" -> sh
      [] OTHER -> ShapeOff

\* the tools of a step's results were executed (formatTools.execute, lines
\* 53-55) while the step was generated, before its step-finish callback
Executed(log, step, at, n) ==
    log \o [i \in 1..Len(step.toolResults) |->
              [tool |-> step.toolResults[i], at |-> at, step |-> n, ok |-> TRUE]]

Init ==
    /\ store = <<>>
    /\ events = <<>>
    /\ pc = "idle"
    /\ mode = "none"
    /\ currentSegmentText = <<>>
    /\ stepIteration = 0
    /\ genSteps = <<>>
    /\ result = NoResult
    /\ lastHadTools = FALSE
    /\ nDeltas = 0
    /\ bufSrc = {}
    /\ stepSrc = {}
    /\ last = NoLast
    /\ providerFailed = FALSE
    /\ allToolCalls = TRUE
    /\ iterationCount = 0
    /\ providerCalls = 0
    /\ execLog = <<>>
    /\ shape = ShapeStart
    /\ front = FrontStart
    /\ streamCalls = [c \in CallIds |-> NoCall]

\* the per-call locals and the history of a call that starts
NewCall ==
    /\ pc = "idle"
    /\ currentSegmentText' = <<>>
    /\ stepIteration' = 0
    /\ genSteps' = <<>>
    /\ lastHadTools' = FALSE
    /\ nDeltas' = 0
    /\ bufSrc' = {}
    /\ stepSrc' = {}
    /\ last' = NoLast
    /\ providerFailed' = FALSE
    /\ allToolCalls' = TRUE
    /\ execLog' = <<>>
    /\ shape' = ShapeStart
    /\ front' = front
    /\ streamCalls' = streamCalls

\* the provider is generating a step: it starts a further step only after a
\* step with tool calls or results, and at most maxSteps steps (lines 177, 339)
StepOpen ==
    /\ stepIteration < maxIterations
    /\ stepIteration = 0 \/ lastHadTools

\* ------------------------------------------------------ the streaming call
\* completeTaskStreaming up to the provider's stream being consumed
\* (lines 392-426, processStream 191-219, streamText 235-345).
\* addUserMessage (394) and getAllTools (397) are outside the try: their
\* failure rejects the call.  A failure of getFormattedMessages or of the
\* streamText call is caught at 427-438, a stream that is not iterable is
\* reported at 209-219.
CompleteTaskStreaming ==
    \E f \in StartFailures :
        /\ NewCall
        /\ mode' = "stream"
        /\ store' = IF f = "addUserMessage" THEN store ELSE Append(store, UserMessage)
        /\ events' = CASE f \in {"addUserMessage", "getAllTools"} -> <<>>
                       [] f = "none" -> <<Ev("thinking", <<>>, {})>>
                       [] OTHER -> <<Ev("thinking", <<>>, {}), Ev("error", <<>>, {})>>
        /\ pc' = IF f = "none" THEN "streaming" ELSE "done"
        /\ result' = CASE f \in {"addUserMessage", "getAllTools"} -> Threw
                       [] f = "none" -> NoResult
                       [] OTHER -> Returned(<<>>)
        /\ providerCalls' = IF f \in {"none", "provider", "notIterable"} THEN 1 ELSE 0
        /\ iterationCount' = 0

\* the provider sends a text delta
Chunk ==
    /\ pc = "streaming"
    /\ StepOpen
    /\ nDeltas < MaxDeltas
    /\ \E delta \in DeltaTexts :
          /\ Apply(OnChunk(H, delta, nDeltas + 1))
          /\ shape' = ShapeNext(shape, In("chunk", delta, <<>>, <<>>))
    /\ nDeltas' = nDeltas + 1
    /\ stepSrc' = stepSrc \cup {nDeltas + 1}
    /\ UNCHANGED <<front, streamCalls, pc, mode, stepIteration, genSteps, result, lastHadTools, last,
                   providerFailed, allToolCalls, iterationCount, providerCalls,
                   execLog>>

\* the provider closes a step
StepFinish ==
    /\ pc = "streaming"
    /\ StepOpen
    /\ \E step \in Steps :
          LET h == OnStepFinish(H, step) IN
          /\ Apply(h)
          /\ last' = Record("onStepFinish", step, h)
          /\ lastHadTools' = HasTools(step)
          /\ allToolCalls' = (allToolCalls /\ Len(step.toolCalls) > 0)
          /\ shape' = ShapeNext(shape, In("step", step.text, step.toolCalls,
                                       step.toolResults))
          /\ execLog' = Executed(execLog, step, Len(events), stepIteration)
    /\ stepIteration' = stepIteration + 1
    /\ stepSrc' = {}
    /\ UNCHANGED <<front, streamCalls, pc, mode, genSteps, result, nDeltas, providerFailed,
                   iterationCount, providerCalls>>

\* variant: onFinish also runs after the call has returned
StreamFinish_AfterReturn ==
    /\ \/ pc = "streaming" /\ pc' = "finished"
       \/ pc = "errored" /\ stepIteration >= 1 /\ pc' = "erroredFinished"
       \/ pc = "done" /\ mode = "stream" /\ pc' = "done"
    /\ LET h == OnFinish(H) IN
          /\ Apply(h)
          /\ last' = Record("onFinish", NoStep, h)
    /\ shape' = ShapeNext(shape, In("finish", <<>>, <<>>, <<>>))
    /\ UNCHANGED <<front, streamCalls, mode, stepIteration, genSteps, result, lastHadTools, nDeltas,
                   stepSrc, providerFailed, allToolCalls, iterationCount,
                   providerCalls, execLog>>

\* the provider finishes the stream; after a failure reported through
\* onError it still does so when a step has been recorded
StreamFinish ==
    /\ \/ pc = "streaming" /\ pc' = "finished"
       \/ pc = "errored" /\ stepIteration >= 1 /\ pc' = "erroredFinished"
    /\ LET h == OnFinish(H) IN
          /\ Apply(h)
          /\ last' = Record("onFinish", NoStep, h)
    /\ shape' = ShapeNext(shape, In("finish", <<>>, <<>>, <<>>))
    /\ UNCHANGED <<front, streamCalls, mode, stepIteration, genSteps, result, lastHadTools, nDeltas,
                   stepSrc, providerFailed, allToolCalls, iterationCount,
                   providerCalls, execLog>>

\* the provider fails and reports it through onError
StreamError ==
    /\ pc = "streaming"
    /\ StepOpen
    /\ pc' = "errored"
    /\ Apply(OnError(H))
    /\ providerFailed' = TRUE
    /\ shape' = ShapeNext(shape, In("error", <<>>, <<>>, <<>>))
    /\ UNCHANGED <<front, streamCalls, mode, stepIteration, genSteps, result, lastHadTools, nDeltas,
                   stepSrc, last, allToolCalls, iterationCount, providerCalls,
                   execLog>>

\* variant: the catch discards the history of the failed task
ProcessStreamCatch_ResetsStore(h) ==
    [Emit(h, Ev("error", <<>>, {})) EXCEPT !.store = <<>>]

\* processStream, its catch (lines 220-226)
ProcessStreamCatch(h) == Emit(h, Ev("error", <<>>, {}))

\* the provider fails and the iteration of textStream rejects, after onError
\* has run or without it; processStream catches and the call returns
ConsumeThrows ==
    /\ \/ pc = "streaming" /\ StepOpen
       \/ pc \in {"errored", "erroredFinished"}
    /\ pc' = "done"
    /\ Apply(ProcessStreamCatch(H))
    /\ providerFailed' = TRUE
    /\ result' = Returned(<<>>)
    /\ shape' = ShapeNext(shape, In("throw", <<>>, <<>>, <<>>))
    /\ UNCHANGED <<front, streamCalls, mode, stepIteration, genSteps, lastHadTools, nDeltas,
                   stepSrc, last, allToolCalls, iterationCount, providerCalls,
                   execLog>>

\* textStream is consumed to its end (lines 205-208) and the call returns
ConsumeEnds ==
    /\ pc \in {"finished", "errored", "erroredFinished"}
    /\ pc' = "done"
    /\ result' = Returned(<<>>)
    /\ UNCHANGED <<front, streamCalls, store, events, mode, currentSegmentText, stepIteration, genSteps,
                   lastHadTools, nDeltas, bufSrc, stepSrc, last, providerFailed,
                   allToolCalls, iterationCount, providerCalls, execLog, shape>>

\* ------------------------------------------------------- tool execution
\* formatTools, the execute of a formatted tool (lines 53-55), when
\* clientManager.executeTool fails: execute rejects with the failure, which
\* fails the provider call: the streaming binding reports it through
\* onError, generateText rejects and completeTask catches.
ToolFails ==
    /\ pc \in {"streaming", "generating"}
    /\ StepOpen
    /\ \E c \in Causes :
          /\ Apply(IF mode = "stream" THEN OnError(H) ELSE CompleteTaskCatch(H, c))
          /\ result' = IF mode = "stream" THEN result ELSE Returned(ErrorReturn(c))
    /\ execLog' = Append(execLog, [tool |-> "t1", at |-> Len(events),
                                   step |-> stepIteration, ok |-> FALSE])
    /\ pc' = IF mode = "stream" THEN "errored" ELSE "done"
    /\ shape' = ShapeOff
    /\ UNCHANGED <<front, streamCalls, mode, stepIteration, genSteps, lastHadTools, nDeltas, stepSrc,
                   last, providerFailed, allToolCalls, iterationCount,
                   providerCalls>>

\* -------------------------------------------------- the non-streaming call
\* completeTask up to the provider call (lines 61-105).  addUserMessage (63)
\* and getAllTools (66) are outside the try: their failure rejects the call.
\* The loop at line 80 is entered with iterationCount = 0.
CompleteTask ==
    \E f \in GenStartFailures, c \in Causes :
        /\ NewCall
        /\ mode' = "gen"
        /\ store' = IF f = "addUserMessage" THEN store ELSE Append(store, UserMessage)
        /\ events' = CASE f \in {"addUserMessage", "getAllTools"} -> <<>>
                       [] f = "none" -> <<Ev("thinking", <<>>, {})>>
                       [] OTHER -> <<Ev("thinking", <<>>, {}), Ev("error", <<c>>, {})>>
        /\ pc' = IF f = "none" THEN "generating" ELSE "done"
        /\ result' = CASE f \in {"addUserMessage", "getAllTools"} -> Threw
                       [] f = "none" -> NoResult
                       [] OTHER -> Returned(ErrorReturn(c))
        /\ iterationCount' = IF f \in {"addUserMessage", "getAllTools"} THEN 0 ELSE 1
        /\ providerCalls' = IF f = "none" THEN 1 ELSE 0

\* the provider closes a step of generateText
GenStepFinish ==
    /\ pc = "generating"
    /\ StepOpen
    /\ \E step \in Steps :
          LET h == GenOnStepFinish(H, step) IN
          /\ Apply(h)
          /\ last' = Record("genStepFinish", step, h)
          /\ lastHadTools' = HasTools(step)
          /\ allToolCalls' = (allToolCalls /\ Len(step.toolCalls) > 0)
          /\ genSteps' = Append(genSteps, step)
          /\ shape' = ShapeNext(shape, In("step", step.text, step.toolCalls,
                                       step.toolResults))
          /\ execLog' = Executed(execLog, step, Len(events), stepIteration)
    /\ stepIteration' = stepIteration + 1
    /\ UNCHANGED <<front, streamCalls, pc, mode, result, nDeltas, stepSrc, providerFailed,
                   iterationCount, providerCalls>>

\* the provider call rejects; completeTask catches and returns the error string
GenFail ==
    /\ pc = "generating"
    /\ StepOpen
    /\ pc' = "done"
    /\ \E c \in Causes :
          /\ Apply(CompleteTaskCatch(H, c))
          /\ result' = Returned(ErrorReturn(c))
    /\ providerFailed' = TRUE
    /\ shape' = ShapeNext(shape, In("throw", <<>>, <<>>, <<>>))
    /\ UNCHANGED <<front, streamCalls, mode, stepIteration, genSteps, lastHadTools, nDeltas,
                   stepSrc, last, allToolCalls, iterationCount, providerCalls,
                   execLog>>

\* generateText resolves: processLLMResponse, then the text is returned
\* (lines 180-183); completeTask tests its loop condition (80) and, the loop
\* being over, returns (110-113).  A failure of processLLMResponse is caught
\* at 114-127.
GenDone ==
    /\ pc = "generating"
    /\ ~StepOpen
    /\ \E f \in {"none", "processLLMResponse"}, c \in Causes :
          LET again == f = "none" /\ LoopContinues(iterationCount)
              h == IF f # "none" THEN CompleteTaskCatch(H, c)
                   ELSE IF again THEN Emit(H, Ev("thinking", <<>>, {}))
                   ELSE H
          IN
          /\ events' = h.events
          /\ store' = IF f = "none" THEN ProcessLLMResponse(store, genSteps) ELSE store
          /\ pc' = IF again THEN "generating" ELSE "done"
          /\ result' = IF f # "none" THEN Returned(ErrorReturn(c))
                       ELSE IF again THEN result
                       ELSE Returned(ReturnValue(ResponseText(genSteps)))
          /\ iterationCount' = IF again THEN iterationCount + 1 ELSE iterationCount
          /\ providerCalls' = IF again THEN providerCalls + 1 ELSE providerCalls
          /\ stepIteration' = IF again THEN 0 ELSE stepIteration
          /\ genSteps' = IF again THEN <<>> ELSE genSteps
          /\ lastHadTools' = IF again THEN FALSE ELSE lastHadTools
    /\ UNCHANGED <<front, streamCalls, mode, currentSegmentText, nDeltas, bufSrc, stepSrc, last,
                   providerFailed, allToolCalls, execLog, shape>>

Next ==
    \/ CompleteTaskStreaming
    \/ Chunk
    \/ StepFinish
    \/ StreamFinish
    \/ StreamError
    \/ ConsumeThrows
    \/ ConsumeEnds
    \/ ToolFails
    \/ CompleteTask
    \/ GenStepFinish
    \/ GenFail
    \/ GenDone

Spec == Init /\ [][Next]_vars

\* The provider's stream eventually finishes or fails, and the loop that
\* consumes textStream (lines 205-207) then ends: the steps that close a
\* stream are taken when they stay possible.
StreamCloses ==
    \/ StreamFinish
    \/ ConsumeThrows
    \/ ConsumeEnds

SpecFair == Spec /\ WF_vars(StreamCloses)

\* ------------------------------------------- concurrent streaming calls
\* Two calls of completeTaskStreaming on one service, interleaved at their
\* awaits.  this.messageManager and this.eventEmitter are shared; stepIteration
\* and currentSegmentText are locals of each streamText invocation (lines
\* 235-236), closed over by its callbacks.  A delta carries the id of the
\* call that received it.
singleCallVars == <<pc, mode, currentSegmentText, stepIteration, genSteps, result,
                    lastHadTools, nDeltas, bufSrc, stepSrc, last, providerFailed,
                    allToolCalls, iterationCount, providerCalls, execLog, shape,
                    front>>

\* variant: the buffer is a field of the service, shared by its calls
CallH_SharedBuffer(c) ==
    [buf |-> streamCalls[1].currentSegmentText, bufSrc |-> streamCalls[1].bufSrc,
     store |-> store, events |-> events, handled |-> FALSE]

\* what the callbacks of call c close over (lines 235-236) and the service's
\* store and bus
CallH(c) ==
    [buf |-> streamCalls[c].currentSegmentText, bufSrc |-> streamCalls[c].bufSrc,
     store |-> store, events |-> events, handled |-> FALSE]

\* the texts a callback flushed: the response events it emitted
Flushed(h) ==
    {[text |-> h.events[i].text, src |-> h.events[i].src] :
        i \in {j \in Len(events) + 1..Len(h.events) : h.events[j].kind = "response"}}

\* a callback of call c has run
CallApply(c, h, next) ==
    /\ store' = h.store
    /\ events' = h.events
    /\ streamCalls' = [streamCalls EXCEPT ![c] =
                    [next EXCEPT !.currentSegmentText = h.buf,
                                 !.bufSrc = h.bufSrc,
                                 !.flushed = @ \cup Flushed(h)]]

\* completeTaskStreaming (lines 392-426) of call c up to its stream being
\* consumed
CallStart ==
    \E c \in CallIds :
        /\ streamCalls[c].pc = "idle"
        /\ store' = Append(store, UserMessage)
        /\ events' = Append(events, Ev("thinking", <<>>, {}))
        /\ streamCalls' = [streamCalls EXCEPT ![c].pc = "streaming"]
        /\ UNCHANGED singleCallVars

CallStepOpen(c) ==
    /\ streamCalls[c].stepIteration < maxIterations
    /\ streamCalls[c].stepIteration = 0 \/ streamCalls[c].lastHadTools

\* the provider sends a text delta to call c (at most MaxDeltas deltas are
\* sent to the two calls together)
CallChunk ==
    \E c \in CallIds, delta \in DeltaTexts \ {<<>>} :
        /\ streamCalls[c].pc = "streaming"
        /\ CallStepOpen(c)
        /\ streamCalls[1].nDeltas + streamCalls[2].nDeltas < MaxDeltas
        /\ LET id == <<c, streamCalls[c].nDeltas + 1>> IN
           CallApply(c, OnChunk(CallH(c), delta, id),
                     [streamCalls[c] EXCEPT !.nDeltas = @ + 1, !.stepSrc = @ \cup {id}])
        /\ UNCHANGED singleCallVars

\* the steps the provider closes in a concurrent call
CallSteps(c) ==
    [text : {<<>>, streamCalls[c].currentSegmentText}, toolCalls : {<<>>, <<"t1">>},
     toolResults : {<<>>}, src : {streamCalls[c].stepSrc}]

\* the provider closes a step of call c
CallStepFinish ==
    \E c \in CallIds :
        /\ streamCalls[c].pc = "streaming"
        /\ CallStepOpen(c)
        /\ \E step \in CallSteps(c) :
              CallApply(c, OnStepFinish(CallH(c), step),
                        [streamCalls[c] EXCEPT !.stepIteration = @ + 1, !.stepSrc = {},
                                         !.lastHadTools = HasTools(step)])
        /\ UNCHANGED singleCallVars

\* the provider finishes the stream of call c, and the call returns
CallFinish ==
    \E c \in CallIds :
        /\ streamCalls[c].pc = "streaming"
        /\ CallApply(c, OnFinish(CallH(c)), [streamCalls[c] EXCEPT !.pc = "done"])
        /\ UNCHANGED singleCallVars

NextConcurrent ==
    \/ CallStart
    \/ CallChunk
    \/ CallStepFinish
    \/ CallFinish

SpecConcurrent == Init /\ [][NextConcurrent]_vars

\* ------------------------------------------------- resetting the conversation
\* MessageManager.reset: the store is emptied
Reset(st) == <<>>

\* variant: the reset is announced but the store is left as it is
ResetConversation_OnlyEmits(h) == Emit(h, Ev("conversationReset", <<>>, {}))

\* VercelLLMService.resetConversation (lines 347-350)
ResetConversation(h) ==
    Emit([h EXCEPT !.store = Reset(@)], Ev("conversationReset", <<>>, {}))

\* AceAgent.resetConversation (part_002, lines 106-116), called by the CLI's
\* `clear` command between two tasks (audio-preprocess.ts, lines 599-603 and
\* 1270-1274): the service resets, then the agent announces it on the same bus
AgentResetConversation ==
    /\ pc \in {"idle", "done"}
    /\ Cardinality({i \in 1..Len(events) : events[i].kind = "conversationReset"})
          < MaxResets
    /\ LET h1 == ResetConversation(H)
           h2 == Emit(h1, Ev("ace:conversationReset", <<>>, {}))
       IN  /\ Apply(h2)
           /\ last' = Record("resetConversation", NoStep, h2)
    /\ UNCHANGED <<front, streamCalls, pc, mode, stepIteration, genSteps, result, lastHadTools, nDeltas,
                   stepSrc, providerFailed, allToolCalls, iterationCount,
                   providerCalls, execLog, shape>>

NextReset ==
    \/ Next
    \/ AgentResetConversation

\* the tasks of Spec, with resets of the conversation before and after a task
SpecReset == Init /\ [][NextReset]_vars

\* ------------------------------------------------------------ the front ends
\* Each front end is one single-threaded process: a handler runs until its
\* next await, where the handlers of other inputs may run.  A stage
\* "running" is a handler awaiting agent.run / agent.runStreaming.
serviceVars == <<store, events, pc, mode, currentSegmentText, stepIteration,
                 genSteps, result, lastHadTools, nDeltas, bufSrc, stepSrc, last,
                 providerFailed, allToolCalls, iterationCount, providerCalls,
                 execLog, shape, streamCalls>>

\* the Discord message that arrives next
NextMessage == CHOOSE m \in MessageIds :
                  /\ front.discord[m].stage = "none"
                  /\ \A k \in MessageIds : k < m => front.discord[k].stage # "none"

\* messageCreate (part_001, lines 107-160): a prompt arrives; an author in
\* cooldown is refused, otherwise the handler awaits the attachment download
\* or sendTyping
DiscordMessage ==
    /\ \E m \in MessageIds : front.discord[m].stage = "none"
    /\ \E a \in Authors :
          front' = [front EXCEPT !.discord[NextMessage] =
                       [stage |-> IF a \in front.cooldown THEN "refused" ELSE "preparing",
                        author |-> a]]
    /\ UNCHANGED serviceVars

\* messageCreate (part_001, lines 166-175): the handler registers its
\* toolCallHandler on the agent's bus, then agent.run is called and awaited
DiscordRun ==
    /\ \E m \in MessageIds :
          /\ front.discord[m].stage = "preparing"
          /\ front' = [front EXCEPT !.discord[m].stage = "running",
                                    !.listeners = @ \cup {m}]
    /\ UNCHANGED serviceVars

\* messageCreate (part_001, lines 176-205): agent.run has settled; the reply
\* is sent and the finally block removes the handler's listener and starts
\* the author's cooldown
DiscordReply ==
    /\ \E m \in MessageIds :
          /\ front.discord[m].stage = "running"
          /\ front' = [front EXCEPT !.discord[m].stage = "replied",
                                    !.cooldown = @ \cup {front.discord[m].author},
                                    !.listeners = @ \ {m}]
    /\ UNCHANGED serviceVars

\* the task of message k emits llmservice:toolCall on the agent's bus
\* (vercel.ts, lines 150-158): every toolCallHandler registered on the bus
\* sends the notification to the channel of its own message (part_001,
\* lines 167-171)
DiscordToolCall ==
    /\ \E k \in MessageIds :
          /\ front.discord[k].stage = "running"
          /\ front' = [front EXCEPT !.posts = @ \cup
                          {[channel |-> m, task |-> k] : m \in front.listeners}]
    /\ UNCHANGED serviceVars

\* the cooldown of an author ends (part_001, lines 131-133: now >= cooldownEnd)
CooldownEnds ==
    /\ \E a \in front.cooldown : front' = [front EXCEPT !.cooldown = @ \ {a}]
    /\ UNCHANGED serviceVars

\* startAiCli, the main loop (audio-preprocess.ts, lines 1269-1284): the
\* prompt is answered with a task, which is awaited
MainRun ==
    /\ front.main = "prompt"
    /\ front' = [front EXCEPT !.main = "running"]
    /\ UNCHANGED serviceVars

\* the main loop's task has settled: back to the prompt (lines 1285-1290)
MainDone ==
    /\ front.main = "running"
    /\ front' = [front EXCEPT !.main = "prompt"]
    /\ UNCHANGED serviceVars

\* the stdin data handler (lines 278-293): Ctrl+T starts a recording
VoiceStart ==
    /\ front.voice = "idle"
    /\ front' = [front EXCEPT !.voice = "recording"]
    /\ UNCHANGED serviceVars

\* the stdin data handler (lines 286-289): Ctrl+T stops the recording;
\* stopRecording awaits the transcription (lines 429-492)
VoiceStop ==
    /\ front.voice = "recording"
    /\ front' = [front EXCEPT !.voice = "transcribing"]
    /\ UNCHANGED serviceVars

\* stopRecording (lines 499-526): the transcribed text is sent to the agent
\* and the task is awaited, or nothing was said
VoiceRun ==
    /\ front.voice = "transcribing"
    /\ \E said \in BOOLEAN :
          front' = [front EXCEPT !.voice = IF said THEN "running" ELSE "idle"]
    /\ UNCHANGED serviceVars

\* the voice input's task has settled
VoiceDone ==
    /\ front.voice = "running"
    /\ front' = [front EXCEPT !.voice = "idle"]
    /\ UNCHANGED serviceVars

NextFrontEnds ==
    \/ DiscordMessage
    \/ DiscordRun
    \/ DiscordReply
    \/ DiscordToolCall
    \/ CooldownEnds
    \/ MainRun
    \/ MainDone
    \/ VoiceStart
    \/ VoiceStop
    \/ VoiceRun
    \/ VoiceDone

\* the handlers of the front ends, interleaved at their awaits
SpecFrontEnds == Init /\ [][NextFrontEnds]_vars

\* ------------------------------------------------------ the CLI subscriber
\* CLISubscriber (cli-subscriber.ts) listens on the service's bus: a handler
\* runs inside each emit.  Its state: the fields accumulatedResponse,
\* isFirstChunk, pendingUpdate and updateInterval (a handle is held); the
\* number of timers that are active; box, the text of the box that
\* renderAccumulatedResponse drew last for the current segment; received
\* (history), every chunk payload since accumulatedResponse was last reset;
\* shown (history), for each response event its text, the content left on
\* the screen for it and the accumulated text it found.
CliStart ==
    [accumulatedResponse |-> <<>>, isFirstChunk |-> TRUE, pendingUpdate |-> FALSE,
     updateInterval |-> FALSE, timers |-> 0, box |-> <<>>, received |-> <<>>,
     shown |-> <<>>]

\* cleanDuplicateText (lines 275-333).  Step 1 halves a text made of twice
\* the same half.  Step 2 splits at a sentence end (. ! ?) followed by a
\* backslash and keeps a text of one fragment that holds no backslash as it
\* is (292-299): the texts here hold none of these characters.
CleanDuplicateText(text) ==
    LET half == Len(text) \div 2 IN
    IF Len(text) > 1 /\ Len(text) % 2 = 0
          /\ SubSeq(text, 1, half) = SubSeq(text, half + 1, Len(text))
    THEN SubSeq(text, 1, half)
    ELSE text

\* if (this.updateInterval) { clearInterval(...); this.updateInterval = null }
ClearUpdateInterval(s) ==
    IF s.updateInterval
    THEN [s EXCEPT !.updateInterval = FALSE, !.timers = @ - 1]
    ELSE s

\* renderAccumulatedResponse (lines 115-147)
RenderAccumulatedResponse(s) ==
    [s EXCEPT !.box = CleanDuplicateText(s.accumulatedResponse)]

\* onThinking (lines 38-83)
CliOnThinking(s) ==
    LET s1 == ClearUpdateInterval(
                  [s EXCEPT !.accumulatedResponse = <<>>, !.isFirstChunk = TRUE,
                            !.pendingUpdate = FALSE, !.box = <<>>,
                            !.received = <<>>])
    IN  [s1 EXCEPT !.updateInterval = TRUE, !.timers = @ + 1]

\* onChunk (lines 85-113).  prompt: more than 100 ms have passed since the
\* last rendering (107), or the interval's callback (75-80) runs before the
\* next event.
CliOnChunk(s, text, prompt) ==
    LET s0 == [s EXCEPT !.received = @ \o text] IN
    IF Len(text) <= Len(s.accumulatedResponse)
          /\ SubSeq(s.accumulatedResponse,
                    Len(s.accumulatedResponse) - Len(text) + 1,
                    Len(s.accumulatedResponse)) = text
    THEN s0
    ELSE LET s1 == [s0 EXCEPT !.accumulatedResponse = @ \o text,
                              !.pendingUpdate = TRUE]
         IN  IF s1.isFirstChunk
             THEN [RenderAccumulatedResponse(s1) EXCEPT !.isFirstChunk = FALSE,
                                                        !.pendingUpdate = FALSE]
             ELSE IF prompt
             THEN [RenderAccumulatedResponse(s1) EXCEPT !.pendingUpdate = FALSE]
             ELSE s1

\* onToolCall (lines 149-199)
CliOnToolCall(s) ==
    [ClearUpdateInterval(s) EXCEPT !.accumulatedResponse = <<>>,
                                   !.isFirstChunk = TRUE, !.pendingUpdate = FALSE,
                                   !.box = <<>>, !.received = <<>>]

\* onResponse (lines 218-269)
CliOnResponse(s, text) ==
    LET s0 == ClearUpdateInterval(s)
        s1 == IF Trim(s0.accumulatedResponse) # <<>>
              THEN IF s0.pendingUpdate THEN RenderAccumulatedResponse(s0) ELSE s0
              ELSE [s0 EXCEPT !.box = CleanDuplicateText(text)]
    IN  [s1 EXCEPT !.shown = Append(@, [text |-> text, final |-> s1.box,
                                       accumulated |-> s.accumulatedResponse,
                                       received |-> s.received]),
                   !.accumulatedResponse = <<>>, !.pendingUpdate = FALSE,
                   !.isFirstChunk = TRUE, !.box = <<>>, !.received = <<>>]

\* onError (lines 335-348) and onConversationReset (350-363)
CliOnError(s) ==
    [ClearUpdateInterval(s) EXCEPT !.accumulatedResponse = <<>>,
                                   !.pendingUpdate = FALSE, !.box = <<>>,
                                   !.received = <<>>]

\* onResetAccumulation (lines 365-376)
CliOnResetAccumulation(s) ==
    ClearUpdateInterval([s EXCEPT !.accumulatedResponse = <<>>,
                                  !.isFirstChunk = TRUE, !.box = <<>>,
                                  !.received = <<>>])

\* subscribe (lines 27-36): the handler of an event
CliHandle(s, e, prompt) ==
    CASE e.kind = "thinking" -> CliOnThinking(s)
      [] e.kind = "chunk" -> CliOnChunk(s, e.text, prompt)
      [] e.kind = "toolCall" -> CliOnToolCall(s)
      [] e.kind = "response" -> CliOnResponse(s, e.text)
      [] e.kind \in {"error", "conversationReset"} -> CliOnError(s)
      [] e.kind = "resetAccumulation" -> CliOnResetAccumulation(s)
      [] OTHER -> s

\* the subscriber after the first n events of evs; prompts: the positions of
\* the events after which the box is redrawn promptly
RECURSIVE CliAfter(_, _, _)
CliAfter(evs, n, prompts) ==
    IF n = 0 THEN CliStart
    ELSE CliHandle(CliAfter(evs, n - 1, prompts), evs[n], n \in prompts)

\* the timings of the renderings that a sequence of events leaves open
Prompts(evs) == SUBSET {i \in 1..Len(evs) : evs[i].kind = "chunk"}

\* ====================================================== claims C1 .. C10
IsResponse(e) == e.kind = "response"
IsAssistant(m) == m.role = "assistant"
TextsOf(seq) == [i \in 1..Len(seq) |-> seq[i].text]
ResponseTexts(evs) == TextsOf(SelectSeq(evs, IsResponse))
AssistantTexts(msgs) == TextsOf(SelectSeq(msgs, IsAssistant))
Count(evs, kind) == Cardinality({i \in 1..Len(evs) : evs[i].kind = kind})
IsPrefix(s, t) == Len(s) <= Len(t) /\ SubSeq(t, 1, Len(s)) = s
DeltaIds == 1..MaxDeltas

\* C1 as written: a streaming step-finish whose reported text is non-empty
\* emits exactly one response event, with the step's text, and appends
\* exactly one assistant message with that text.
C1_AsWritten ==
    (last.handler = "onStepFinish" /\ last.text # <<>>)
        => /\ ResponseTexts(last.emitted) = <<last.text>>
           /\ AssistantTexts(last.appended) = <<last.text>>

\* C1 (amended): a streaming step-finish whose reported text has a character
\* that is not whitespace emits exactly one response event, with the step's
\* text, and appends exactly one assistant message with that text.
C1_StepTextOneResponse ==
    (last.handler = "onStepFinish" /\ Trim(last.text) # <<>>)
        => /\ ResponseTexts(last.emitted) = <<last.text>>
           /\ AssistantTexts(last.appended) = <<last.text>>

\* deltas were buffered, then a step-finish with tool calls closed the text
C1_Witness ==
    /\ last.handler = "onStepFinish"
    /\ Trim(last.text) # <<>>
    /\ last.bufBefore # <<>>
    /\ Len(last.toolCalls) > 0
    /\ ResponseTexts(last.emitted) = <<last.text>>

\* C2: a step-finish with tool calls, a step-finish with tool results or a
\* stream-finish that finds text in the buffer flushes it: the callback emits
\* a response event and appends an assistant message.  Stated for a buffer
\* with a character that is not whitespace, and without asking which text
\* the response carries: the weakest reading of the claim.
C2_BufferNeverDropped ==
    (/\ \/ last.handler = "onStepFinish" /\ HasTools(last)
        \/ last.handler = "onFinish"
     /\ Trim(last.bufBefore) # <<>>)
        => /\ Count(last.emitted, "response") >= 1
           /\ AssistantTexts(last.appended) # <<>>

\* C3: no delta is emitted twice: every delta received is among the sources
\* of at most one response event and of at most one assistant message.
C3_NoDeltaTwice ==
    \A d \in DeltaIds :
        /\ Cardinality({i \in 1..Len(events) :
                          IsResponse(events[i]) /\ d \in events[i].src}) <= 1
        /\ Cardinality({i \in 1..Len(store) :
                          IsAssistant(store[i]) /\ d \in store[i].src}) <= 1

\* a finished stream in which deltas were flushed from the buffer by a tool
\* call batch and a later response was emitted too
C3_Witness ==
    /\ pc = "done"
    /\ mode = "stream"
    /\ Count(events, "response") >= 2
    /\ \E i \in 1..Len(events) :
          IsResponse(events[i]) /\ events[i].src # {} /\ events[i].text # OtherText

\* position of the first toolCall event of a callback's emissions, or one
\* past the end
FirstToolCall(evs) ==
    IF \E j \in 1..Len(evs) : evs[j].kind = "toolCall"
    THEN CHOOSE j \in 1..Len(evs) :
            /\ evs[j].kind = "toolCall"
            /\ \A k \in 1..(j - 1) : evs[k].kind # "toolCall"
    ELSE Len(evs) + 1

\* C4 as written: a step-finish that reports tool calls while the buffer is
\* non-empty emits a response event before its first toolCall event.
C4_AsWritten ==
    (/\ last.handler = "onStepFinish"
     /\ Len(last.toolCalls) > 0
     /\ last.bufBefore # <<>>)
        => \E i \in 1..(FirstToolCall(last.emitted) - 1) : IsResponse(last.emitted[i])

\* C4 (amended): a step-finish that reports tool calls while the buffer holds
\* a character that is not whitespace emits exactly one response event, it is
\* emitted before the first toolCall event, and it carries the step's text
\* when that has a character that is not whitespace and the buffered text
\* otherwise.
C4_ResponseBeforeToolCall ==
    (/\ last.handler = "onStepFinish"
     /\ Len(last.toolCalls) > 0
     /\ Trim(last.bufBefore) # <<>>)
        => /\ IsResponse(last.emitted[1])
           /\ FirstToolCall(last.emitted) = 2
           /\ ResponseTexts(last.emitted) =
                <<IF Trim(last.text) # <<>> THEN last.text ELSE last.bufBefore>>

\* the buffered text is flushed by the tool-call branch
C4_Witness ==
    /\ last.handler = "onStepFinish"
    /\ Len(last.toolCalls) > 0
    /\ Trim(last.bufBefore) # <<>>
    /\ last.text = <<>>
    /\ IsResponse(last.emitted[1])
    /\ last.emitted[2].kind = "toolCall"

\* C5 as written: in either mode, a step-finish emits exactly one
\* resetAccumulation event when it reports tool calls and none otherwise.
C5_AsWritten ==
    last.handler \in {"onStepFinish", "genStepFinish"}
        => Count(last.emitted, "resetAccumulation")
             = (IF Len(last.toolCalls) > 0 THEN 1 ELSE 0)

\* C5 (amended): in a streaming task a resetAccumulation event is emitted if
\* and only if a step-finish reporting tool calls is processed, and then
\* exactly one; the non-streaming call emits none.
C5_ResetIffToolCalls ==
    [][ Count(events', "resetAccumulation") =
          IF pc = "idle" THEN 0
          ELSE Count(events, "resetAccumulation") +
               (IF /\ mode = "stream"
                   /\ stepIteration' = stepIteration + 1
                   /\ Len(last'.toolCalls) > 0
                THEN 1 ELSE 0) ]_vars

\* a streaming step with a batch of two tool calls emitted one reset
C5_Witness ==
    /\ last.handler = "onStepFinish"
    /\ Len(last.toolCalls) = 2
    /\ Count(last.emitted, "resetAccumulation") = 1
    /\ Count(last.emitted, "toolCall") = 2

\* C6: when every step of the provider reports tool calls and neither the
\* provider nor a tool fails, completeTask returns after exactly
\* maxIterations steps and returns the exhaustion message.
C6_IterationBound ==
    (/\ pc = "done"
     /\ mode = "gen"
     /\ stepIteration >= 1
     /\ allToolCalls
     /\ ~providerFailed
     /\ \A i \in 1..Len(execLog) : execLog[i].ok)
        => /\ stepIteration = maxIterations
           /\ result = Returned(ExhaustionMessage)

\* C7: a streaming task in which the provider failed mid-stream has emitted
\* exactly one error event when it returns.
C7_ExactlyOneError ==
    (pc = "done" /\ mode = "stream" /\ providerFailed)
        => Count(events, "error") = 1

\* C8: in a streaming task no response event follows an error event.
C8_NoResponseAfterError ==
    mode = "stream"
        => \A i, j \in 1..Len(events) :
              (i < j /\ events[i].kind = "error") => ~IsResponse(events[j])

\* C9: in a streaming task the store only grows, and a step that emits an
\* error event leaves the store as it was: the messages flushed before a
\* provider error stay, unchanged and in order.
C9_StoreKeptOnError ==
    [][ mode = "stream"
          => /\ IsPrefix(store, store')
             /\ (Count(events', "error") > Count(events, "error")) => store' = store ]_vars

\* a streaming task that flushed a segment, then failed, and has returned
C9_Witness ==
    /\ pc = "done"
    /\ mode = "stream"
    /\ providerFailed
    /\ \E i, j \in 1..Len(events) :
          /\ i < j
          /\ IsResponse(events[i])
          /\ events[j].kind = "error"
          /\ \E k \in 1..Len(store) :
                IsAssistant(store[k]) /\ store[k].text = events[i].text

\* C10: when completeTask returns after a provider failure, every text
\* reported through a response event is an assistant message of the store.
C10_ReportedSegmentsRetained ==
    (pc = "done" /\ mode = "gen" /\ providerFailed)
        => \A i \in 1..Len(events) :
              IsResponse(events[i])
                => \E k \in 1..Len(store) :
                      IsAssistant(store[k]) /\ store[k].text = events[i].text

\* ===================================================== claims C11 .. C20
IsError(e) == e.kind = "error"
Range(seq) == {seq[i] : i \in 1..Len(seq)}

\* C11: whatever collaborator fails (appending the user message, listing the
\* tools, formatting the history, the provider call, processing its
\* response), completeTask ends by returning a string and never by raising.
C11_AlwaysReturnsString ==
    (pc = "done" /\ mode = "gen") => (result.returned /\ ~result.threw)

\* C12: completeTaskStreaming never throws across its public boundary: a
\* call that has ended has returned, and a failure was announced only by an
\* error event.
C12_StreamingNeverThrows ==
    (pc = "done" /\ mode = "stream")
        => /\ ~result.threw
           /\ result.returned

\* C13: when the provider call fails inside completeTask, exactly one error
\* event is emitted, it carries the cause, and the call returns the error
\* string, which contains the cause's message.
C13_ProviderFailureReported ==
    (pc = "done" /\ mode = "gen" /\ providerFailed)
        => \E c \in Causes :
              /\ SelectSeq(events, IsError) = <<Ev("error", <<c>>, {})>>
              /\ result = Returned(ErrorReturn(c))
              /\ c \in Range(result.value)

\* the provider call of completeTask failed after a step with tools
C13_Witness ==
    /\ pc = "done"
    /\ mode = "gen"
    /\ providerFailed
    /\ stepIteration >= 1
    /\ Count(events, "error") = 1
    /\ result.returned

KindText(evs) == [i \in 1..Len(evs) |-> <<evs[i].kind, evs[i].text>>]
ChunksOf(deltas) == [i \in 1..Len(deltas) |-> <<"chunk", deltas[i]>>]

\* C14: a streaming task whose provider sends deltas, a step-finish with a
\* text T1 and a tool call, the tool's result, and a step-finish with a text
\* T2 has emitted exactly: thinking, one chunk per delta, response(T1),
\* toolCall, resetAccumulation, toolResult, response(T2).
C14_ScenarioEvents ==
    (mode = "stream" /\ shape.pos = 3)
        => KindText(events) =
              <<<<"thinking", <<>>>>>> \o ChunksOf(shape.deltas)
              \o << <<"response", shape.t1>>, <<"toolCall", shape.tool>>,
                    <<"resetAccumulation", <<>>>>, <<"toolResult", shape.tool>>,
                    <<"response", shape.t2>> >>

\* the scenario has run to the end of the stream and the call has returned
C14_Witness ==
    /\ mode = "stream"
    /\ shape.pos = 3
    /\ pc = "done"
    /\ Len(shape.deltas) >= 1
    /\ Count(events, "toolResult") = 1
    /\ Count(events, "response") = 2

IsStoredTurn(m) == m.role \in {"assistant", "tool"}
IsReported(e) == e.kind \in {"response", "toolResult"}
\* the appended assistant messages and tool-result turns, as the events they
\* correspond to
StoreTrace(msgs) ==
    LET t == SelectSeq(msgs, IsStoredTurn)
    IN  [i \in 1..Len(t) |->
            <<IF t[i].role = "assistant" THEN "response" ELSE "toolResult", t[i].text>>]
EventTrace(evs) == KindText(SelectSeq(evs, IsReported))

\* C15: after a streaming task in which a tool call completed, the store
\* holds the user message, one assistant message per flushed segment, and a
\* tool-result turn for the tool.
C15_ToolResultTurnStored ==
    (/\ pc = "done"
     /\ mode = "stream"
     /\ Count(events, "error") = 0
     /\ Count(events, "toolCall") >= 1
     /\ Count(events, "toolResult") >= 1)
        => /\ store[1] = UserMessage
           /\ AssistantTexts(store) = ResponseTexts(events)
           /\ \E i \in 1..Len(store) : store[i].role = "tool"

\* C16: when a task has returned without a failure, the assistant messages
\* and tool-result turns were appended in the order in which the response
\* and toolResult events were emitted, one message per event.
C16_AppendOrderIsEmissionOrder ==
    (pc = "done" /\ result.returned /\ Count(events, "error") = 0)
        => StoreTrace(store) = EventTrace(events)

\* C17: a call that has ended emitted exactly one thinking event, as its
\* first event, and appended the user message.
C17_ThinkingFirst ==
    (pc = "done")
        => /\ Count(events, "thinking") = 1
           /\ events[1].kind = "thinking"
           /\ UserMessage \in Range(store)

\* C18: the provider's generation call is invoked at most once per call of
\* completeTask or completeTaskStreaming, and never again after it failed.
C18_NoRetry ==
    [][ /\ providerCalls' <= 1
        /\ providerFailed => providerCalls' = providerCalls ]_vars

\* the provider call of completeTask failed and the call returned after that
\* single invocation
C18_Witness ==
    /\ pc = "done"
    /\ mode = "gen"
    /\ providerFailed
    /\ providerCalls = 1
    /\ iterationCount = 1

\* C19: a tool execution that failed is reported by a toolResult event for
\* that tool, and no error event is emitted because of it.
C19_ToolFailureIsResult ==
    \A i \in 1..Len(execLog) :
        ~execLog[i].ok
            => /\ \E j \in (execLog[i].at + 1)..Len(events) :
                     events[j] = Ev("toolResult", <<execLog[i].tool>>, {})
               /\ \A j \in (execLog[i].at + 1)..Len(events) : ~IsError(events[j])

\* C20: the toolCall event of a tool that was called and executed was
\* emitted before its execution started, and its toolResult event after the
\* execution completed.
C20_ToolCallBeforeExecution ==
    \A i \in 1..Len(execLog) :
        (/\ execLog[i].ok
         /\ Ev("toolCall", <<execLog[i].tool>>, {}) \in Range(events))
            => /\ \E j \in 1..execLog[i].at :
                     events[j] = Ev("toolCall", <<execLog[i].tool>>, {})
               /\ \E j \in (execLog[i].at + 1)..Len(events) :
                     events[j] = Ev("toolResult", <<execLog[i].tool>>, {})

\* ===================================================== claims C21 .. C30
HasText(step) == Truthy(step.text)
StepTextsOf(steps) == TextsOf(SelectSeq(steps, HasText))

\* C21: a completeTask that succeeds (no failure, the last step has text)
\* returns the text of the last step, not the concatenation of the texts of
\* its steps, and each step's text is stored as an assistant message of its
\* own.
C21_ReturnsLastStepText ==
    (/\ pc = "done"
     /\ mode = "gen"
     /\ Count(events, "error") = 0
     /\ genSteps # <<>>
     /\ HasText(genSteps[Len(genSteps)]))
        => /\ result = Returned(genSteps[Len(genSteps)].text)
           /\ AssistantTexts(store) = StepTextsOf(genSteps)

\* a successful completeTask of two steps that both carry text
C21_Witness ==
    /\ pc = "done"
    /\ mode = "gen"
    /\ Count(events, "error") = 0
    /\ Len(genSteps) = 2
    /\ HasText(genSteps[1])
    /\ HasText(genSteps[2])
    /\ result = Returned(genSteps[2].text)
    /\ Len(AssistantTexts(store)) = 2

\* C22: a streaming task that used up the maximum number of steps, every one
\* of them calling tools, has emitted the fixed exhaustion message in an
\* event, as completeTask returns it.
C22_StreamingEmitsExhaustion ==
    (/\ pc = "done"
     /\ mode = "stream"
     /\ stepIteration = maxIterations
     /\ allToolCalls
     /\ Count(events, "error") = 0)
        => \E i \in 1..Len(events) : events[i].text = ExhaustionMessage

\* C23: every resetConversation leaves the store empty and emits exactly one
\* conversationReset event; a second call in a row leaves the store as the
\* first one left it.
C23_ResetIdempotent ==
    [][ Count(events', "conversationReset") > Count(events, "conversationReset")
          => /\ store' = <<>>
             /\ Count(events', "conversationReset")
                   = Count(events, "conversationReset") + 1
             /\ last.handler = "resetConversation" => store' = store ]_vars

\* two resets in a row after a task that had stored messages
C23_Witness ==
    /\ pc = "done"
    /\ Count(events, "response") >= 1
    /\ Count(events, "conversationReset") = 2
    /\ last.handler = "resetConversation"
    /\ store = <<>>

IsLoopEvent(e) == e.kind \in {"response", "toolCall", "toolResult"}
LoopEvents(evs) == KindText(SelectSeq(evs, IsLoopEvent))
FreshHandler == [buf |-> <<>>, bufSrc |-> {}, store |-> <<>>, events |-> <<>>,
                 handled |-> FALSE]
\* the step-finish notice the last callback received
LastStep == [text |-> last.text, toolCalls |-> last.toolCalls,
             toolResults |-> last.toolResults, src |-> {}]

\* C24: for a step-finish notice whose text is the text of the step's
\* deltas, the streaming step handler emits the same response, toolCall and
\* toolResult events as the non-streaming step handler emits for that notice.
C24_SameLoopEvents ==
    (last.handler = "onStepFinish" /\ last.bufBefore = last.text)
        => LoopEvents(last.emitted)
              = LoopEvents(GenOnStepFinish(FreshHandler, LastStep).events)

DiscordInFlight == {m \in MessageIds : front.discord[m].stage = "running"}

\* C25: at no time are two calls of agent.run / agent.runStreaming in flight
\* against the same agent: neither two Discord messages nor the CLI's voice
\* input together with the CLI's main loop.
C25_TasksSerialized ==
    /\ Cardinality(DiscordInFlight) <= 1
    /\ ~(front.main = "running" /\ front.voice = "running")

IsContent(e) == e.kind \in {"chunk", "response", "toolCall", "toolResult"}

\* every tool result was reported after the call of its tool
ResultsFollowCalls(evs) ==
    \A i \in 1..Len(evs) :
        evs[i].kind = "toolResult"
            => \E j \in 1..(i - 1) : evs[j] = Ev("toolCall", evs[i].text, {})

\* C26: in a streaming task that ended without failure, a response event is
\* emitted when the response is finished: it is the only response event and
\* no chunk, tool call or tool result follows it.
C26_ResponseIsComplete ==
    (/\ pc = "done"
     /\ mode = "stream"
     /\ Count(events, "error") = 0
     /\ ResultsFollowCalls(events))
        => /\ Count(events, "response") <= 1
           /\ \A i \in 1..Len(events) :
                 IsResponse(events[i])
                    => \A j \in (i + 1)..Len(events) : ~IsContent(events[j])

IsSuffix(d, buf) ==
    Len(d) <= Len(buf) /\ SubSeq(buf, Len(buf) - Len(d) + 1, Len(buf)) = d

\* C27: a delta that re-sends text the buffer already ends with is not
\* emitted as a chunk event and is not appended to the buffer.
C27_ResentDeltaDropped ==
    [][ (nDeltas' = nDeltas + 1 /\ Len(events') = Len(events) + 1)
          => ~IsSuffix(events'[Len(events')].text, currentSegmentText) ]_vars

NamedEvents(kind, names) == [i \in 1..Len(names) |-> <<kind, <<names[i]>>>>]
\* the events of a step-finish after its response event, if it has one
AfterResponse(evs) ==
    IF evs # <<>> /\ IsResponse(evs[1]) THEN Tail(KindText(evs)) ELSE KindText(evs)
ResetAfter(calls) ==
    IF calls # <<>> THEN << <<"resetAccumulation", <<>>>> >> ELSE <<>>
IsStepHandler(name) == name \in {"onStepFinish", "genStepFinish"}

\* C28 as written: in both step handlers a step-finish emits its response
\* (if any), then its toolCall events in listed order followed by
\* resetAccumulation, then its toolResult events in listed order.
C28_AsWritten ==
    IsStepHandler(last.handler)
        => AfterResponse(last.emitted)
              = NamedEvents("toolCall", last.toolCalls) \o ResetAfter(last.toolCalls)
                \o NamedEvents("toolResult", last.toolResults)

\* C28 (amended): in both step handlers a step-finish emits its response (if
\* any), then its toolCall events in listed order, then its toolResult events
\* in listed order; the streaming handler emits resetAccumulation after the
\* toolCall events, the non-streaming handler emits none.
C28_StepEventOrder ==
    IsStepHandler(last.handler)
        => AfterResponse(last.emitted)
              = NamedEvents("toolCall", last.toolCalls)
                \o (IF last.handler = "onStepFinish"
                    THEN ResetAfter(last.toolCalls) ELSE <<>>)
                \o NamedEvents("toolResult", last.toolResults)

\* a non-streaming step-finish with a text, two tool calls and a tool result
C28_Witness ==
    /\ last.handler = "genStepFinish"
    /\ Len(last.toolCalls) = 2
    /\ Len(last.toolResults) = 1
    /\ Len(last.emitted) = 4
    /\ IsResponse(last.emitted[1])

\* C29 as written: a stream-finish that finds text in the buffer appends one
\* assistant message and emits one response event with that text.
C29_AsWritten ==
    (last.handler = "onFinish" /\ last.bufBefore # <<>>)
        => /\ KindText(last.emitted) = << <<"response", last.bufBefore>> >>
           /\ AssistantTexts(last.appended) = <<last.bufBefore>>

\* C29 (amended): a stream-finish that finds text with a character that is
\* not whitespace in the buffer appends one assistant message and emits one
\* response event with the buffered text; otherwise it emits and appends
\* nothing; in both cases the buffer is empty afterwards.
C29_FinishFlushesBuffer ==
    (last.handler = "onFinish")
        => /\ last.bufAfter = <<>>
           /\ IF Trim(last.bufBefore) # <<>>
              THEN /\ KindText(last.emitted) = << <<"response", last.bufBefore>> >>
                   /\ AssistantTexts(last.appended) = <<last.bufBefore>>
                   /\ Len(last.appended) = 1
              ELSE last.emitted = <<>> /\ last.appended = <<>>

\* the stream finished with visible text left in the buffer
C29_Witness ==
    /\ last.handler = "onFinish"
    /\ Trim(last.bufBefore) # <<>>
    /\ Len(last.emitted) = 1
    /\ Len(last.appended) = 1

C31_StreamingTerminates ==
    /\ (mode = "stream" /\ pc # "done") ~> (pc = "done")
    /\ [][pc = "done" => events' = events]_vars

\* a streaming call went through a tool round and has ended
C31_Witness ==
    /\ mode = "stream"
    /\ pc = "done"
    /\ stepIteration = 2
    /\ Count(events, "toolCall") >= 1
    /\ result.returned

\* the ids of the deltas that call c received
DeltasOf(c) == {<<c, n>> : n \in 1..MaxDeltas}

\* C32: under any interleaving of two streaming calls, a text flushed by one
\* call carries no delta that the other call received.
C32_BuffersPerCall ==
    \A c \in CallIds : \A f \in streamCalls[c].flushed : f.src \subseteq DeltasOf(c)

\* both calls received deltas while the other was streaming, and both have
\* flushed a text
C32_Witness ==
    /\ \A c \in CallIds : streamCalls[c].flushed # {} /\ streamCalls[c].pc = "done"
    /\ \E i, j, k, l \in 1..Len(events) :
          /\ i < j /\ j < k /\ k < l
          /\ events[i].kind = "chunk" /\ events[i].src = {<<1, 1>>}
          /\ events[j].kind = "chunk" /\ events[j].src = {<<2, 1>>}
          /\ events[k].kind = "response" /\ events[l].kind = "response"

\* the payloads, in order and concatenated, of the chunk events of the deltas ids
RECURSIVE ChunkText(_, _)
ChunkText(evs, ids) ==
    IF evs = <<>> THEN <<>>
    ELSE (IF Head(evs).kind = "chunk" /\ Head(evs).src \subseteq ids
          THEN Head(evs).text ELSE <<>>) \o ChunkText(Tail(evs), ids)

\* the callback flushed the buffer, not the text of its step
FlushedBuffer ==
    /\ last.handler \in {"onStepFinish", "onFinish"}
    /\ ~(Truthy(last.text) /\ Trim(last.text) # <<>>)

\* C33: in a streaming task the buffer is the concatenation, in order, of the
\* payloads of the chunk events emitted since it was last cleared, and a
\* response flushed from the buffer carries exactly the text of those chunks.
C33_BufferIsChunksSinceClear ==
    mode = "stream" =>
        /\ currentSegmentText = ChunkText(events, bufSrc)
        /\ FlushedBuffer =>
              \A i \in 1..Len(last.emitted) :
                  last.emitted[i].kind = "response" =>
                      /\ last.emitted[i].text = last.bufBefore
                      /\ last.emitted[i].text = ChunkText(events, last.emitted[i].src)

\* two different deltas were buffered one after the other and flushed from
\* the buffer before a tool call
C33_Witness ==
    /\ mode = "stream"
    /\ FlushedBuffer
    /\ last.bufBefore = <<"a", " ", "a">> \/ last.bufBefore = <<" ", "a">>
    /\ last.toolCalls # <<>>
    /\ \E i \in 1..Len(last.emitted) : last.emitted[i].kind = "response"

\* C34 as written: after every streaming step-finish callback the buffer is
\* empty, whatever the step and the buffered deltas were.
C34_AsWritten ==
    last.handler = "onStepFinish" => last.bufAfter = <<>>

\* C34 (amended): after every streaming step-finish callback the buffer
\* holds no text but whitespace; it is left non-empty only when it held
\* nothing but whitespace and the step had neither tool calls, nor tool
\* results, nor a text that is not whitespace, and then it is left as it was.
C34_BufferBlankAfterStep ==
    last.handler = "onStepFinish" =>
        /\ Trim(last.bufAfter) = <<>>
        /\ last.bufAfter # <<>> =>
              /\ last.bufAfter = last.bufBefore
              /\ last.toolCalls = <<>>
              /\ last.toolResults = <<>>
              /\ Trim(last.text) = <<>>

\* a step-finish without tools and without text found the buffer holding
\* whitespace and left it there; an earlier one had flushed a text
C34_Witness ==
    /\ last.handler = "onStepFinish"
    /\ last.bufBefore = <<" ">>
    /\ last.bufAfter = <<" ">>
    /\ last.text = <<>>
    /\ Count(events, "response") >= 1

IsBlank(text) == Trim(text) = <<>>

\* C35: in a streaming task no response event carries an empty or
\* whitespace-only text, and no callback appends an empty or whitespace-only
\* assistant message.
C35_NoBlankResponse ==
    mode = "stream" =>
        /\ \A i \in 1..Len(events) :
              events[i].kind = "response" => ~IsBlank(events[i].text)
        /\ \A i \in 1..Len(last.appended) :
              last.appended[i].role = "assistant" => ~IsBlank(last.appended[i].text)

\* a streaming task whose only delta was whitespace and whose step had no text
\* has finished without a response
C35_Witness ==
    /\ mode = "stream"
    /\ pc = "done"
    /\ last.handler = "onFinish"
    /\ last.bufBefore = <<" ">>
    /\ stepIteration = 1
    /\ Count(events, "chunk") = 1
    /\ Count(events, "response") = 0
    /\ Count(events, "error") = 0

\* C36: a completeTask that did not fail returns the fixed exhaustion message
\* only when the provider used up the maximum number of steps; when the
\* provider finished within the bound, it returns the provider's final text.
C36_ExhaustionOnlyAtBound ==
    (/\ pc = "done"
     /\ mode = "gen"
     /\ result.returned
     /\ Count(events, "error") = 0)
        => /\ result.value = ExhaustionMessage => Len(genSteps) = maxIterations
           /\ Len(genSteps) < maxIterations => result.value = ResponseText(genSteps)

\* the events emitted before the first error event
RECURSIVE BeforeError(_)
BeforeError(evs) ==
    IF evs = <<>> \/ Head(evs).kind = "error" THEN <<>>
    ELSE <<Head(evs)>> \o BeforeError(Tail(evs))

\* C37: when a task that reported a failure has ended, the store is the
\* store before the call (empty), then the user's message, then the segments
\* flushed before the error, and nothing else.
C37_FailedTaskStore ==
    (pc = "done" /\ Count(events, "error") >= 1)
        => /\ store # <<>>
           /\ Head(store) = UserMessage
           /\ TextsOf(Tail(store)) = ResponseTexts(BeforeError(events))

\* every response text is the text of the deltas the provider sent for it
StepTextsAreDeltas ==
    \A i \in 1..Len(events) :
        events[i].kind = "response" => events[i].text = ChunkText(events, events[i].src)

\* C38: for every text segment of a streaming task whose provider reports the
\* text it streamed, the content the CLI subscriber leaves on the screen is
\* the text of the segment's response event, and the text it had accumulated
\* when the response arrived is the concatenation of the chunk payloads it
\* received for the segment.
C38_CliShowsResponseText ==
    (mode = "stream" /\ StepTextsAreDeltas) =>
        \A prompts \in Prompts(events) :
            LET s == CliAfter(events, Len(events), prompts) IN
            \A i \in 1..Len(s.shown) :
                /\ s.shown[i].final = s.shown[i].text
                /\ s.shown[i].accumulated = s.shown[i].received

\* the task has ended and its events are all delivered
TaskCompleted == pc = "done" /\ mode \in {"stream", "gen"}

\* C39: the CLI subscriber holds at most one update interval at any time,
\* and after a task has completed (with a response, an error, a tool call
\* without final text, or no text at all) no interval is left active.
C39_NoTimerLeak ==
    \A prompts \in Prompts(events) :
        /\ \A n \in 0..Len(events) : CliAfter(events, n, prompts).timers <= 1
        /\ TaskCompleted => CliAfter(events, Len(events), prompts).timers = 0

\* C40: a tool-call notification is posted only in the channel of the message
\* whose task made the call, and the listener of a handler that has finished
\* is no longer registered.
C40_ToolCallsToOwnChannel ==
    /\ \A p \in front.posts : p.channel = p.task
    /\ \A m \in MessageIds :
          front.discord[m].stage \in {"none", "refused", "replied"}
              => m \notin front.listeners
====
